---- MODULE Spec2Model ----
(***************************************************************************)
(* Model of the overflower support crate (src/support/src/lib.rs): the     *)
(* per-kind, per-policy checked arithmetic behind the *Wrap, *Panic and    *)
(* *Saturate traits.  A behaviour is one call of one entry point: Init     *)
(* draws the receiver kind, the right-hand type and the two operands, an   *)
(* action is one trait method applied to them, and res records whether the *)
(* call returned a value or panicked; self is the receiver's storage,      *)
(* which only the in-place (`&mut self`) entry points write.               *)
(***************************************************************************)
EXTENDS Integers, FiniteSets, Sequences, TLC

VARIABLES kind, rty, a, b, pc, op, res, sel, self, target, items, taken

vars == <<kind, rty, a, b, pc, op, res, sel, self, target, items, taken>>

(***************************************************************************)
(* Integer kinds.  The arithmetic is kept at its real width; the kinds are *)
(* the ones whose true products fit TLC's 32-bit integers.                 *)
(***************************************************************************)
Kinds == {"u8", "i8", "i16"}

Signed(k) == k \in {"i8", "i16"}

BITS(k) == CASE k = "u8" -> 8 [] k = "i8" -> 8 [] k = "i16" -> 16

RECURSIVE Pow2(_)
Pow2(n) == IF n <= 0 THEN 1 ELSE 2 * Pow2(n - 1)

MIN(k) == IF Signed(k) THEN -Pow2(BITS(k) - 1) ELSE 0

MAX(k) == IF Signed(k) THEN Pow2(BITS(k) - 1) - 1 ELSE Pow2(BITS(k)) - 1

InRange(k, x) == MIN(k) <= x /\ x <= MAX(k)

(***************************************************************************)
(* Operand values drawn in Init: a band of Edge values around MIN, zero    *)
(* and MAX, every power of two and its negation, the shift counts around   *)
(* the bit width, and the operands of the crate's own tests.               *)
(***************************************************************************)
Edge == 3

Samples == {5, -5, 6, -6, 7, 10, 16, 73, 100, 200, 255}

Candidates(k) ==
    (MIN(k) .. MIN(k) + Edge) \cup (-Edge .. Edge) \cup (MAX(k) - Edge .. MAX(k))
    \cup {Pow2(i) : i \in 0 .. BITS(k)} \cup {-Pow2(i) : i \in 0 .. BITS(k)}
    \cup UNION {(BITS(r) - 1) .. (BITS(r) + 1) : r \in Kinds}
    \cup Samples

Vals(k) == {v \in Candidates(k) : InRange(k, v)}

(***************************************************************************)
(* Outcome of a call: a returned value, or a panic.  Option values of the  *)
(* checked_* functions use the same shape (Some(v) / None).                *)
(***************************************************************************)
Return(v) == [ok |-> TRUE, val |-> v]

Panicked == [ok |-> FALSE, val |-> 0]

Some(v) == Return(v)

None == Panicked

NotCalled == [ok |-> FALSE, val |-> -1]

(***************************************************************************)
(* Two's-complement helpers of the standard integer methods the crate      *)
(* delegates to.                                                           *)
(***************************************************************************)
\* variant: the low bits are not read back as a signed value
WrapTo_NoSign(k, x) == x % Pow2(BITS(k))

\* the low BITS(k) bits of x, read back as a value of kind k
WrapTo(k, x) ==
    LET m == x % Pow2(BITS(k))
    IN  IF Signed(k) /\ m >= Pow2(BITS(k) - 1) THEN m - Pow2(BITS(k)) ELSE m

Abs(x) == IF x < 0 THEN -x ELSE x

\* variant: division rounding toward minus infinity
TruncDiv_Floor(x, y) == x \div y

\* integer division as the hardware does it: rounding toward zero
TruncDiv(x, y) ==
    IF (x >= 0) = (y > 0) THEN Abs(x) \div Abs(y) ELSE -(Abs(x) \div Abs(y))

TruncRem(x, y) == x - y * TruncDiv(x, y)

DivOverflows(k, x, y) == Signed(k) /\ x = MIN(k) /\ y = -1

\* `rhs as usize >= $bits`: a negative count casts to a value above any width
AsUsizeGe(n, bits) == n < 0 \/ n >= bits

\* `rhs as u32` compared against the width: negative counts cast far above it
AsU32Ge(n, bits) == n < 0 \/ n >= bits

\* `rhs as u32` masked to the width, as the wrapping shifts do
MaskCount(k, n) == n % BITS(k)

\* x << n for a count within the width: bits shifted past the width are lost
ShlBits(k, x, n) == WrapTo(k, x * Pow2(n))

\* x >> n for a count within the width: arithmetic for signed kinds
ShrBits(k, x, n) == x \div Pow2(n)

(***************************************************************************)
(* checked_*: None when the true result is not representable.              *)
(***************************************************************************)
checked_add(k, x, y) == IF InRange(k, x + y) THEN Some(x + y) ELSE None

checked_sub(k, x, y) == IF InRange(k, x - y) THEN Some(x - y) ELSE None

checked_mul(k, x, y) == IF InRange(k, x * y) THEN Some(x * y) ELSE None

checked_div(k, x, y) ==
    IF y = 0 \/ DivOverflows(k, x, y) THEN None ELSE Some(TruncDiv(x, y))

checked_rem(k, x, y) ==
    IF y = 0 \/ DivOverflows(k, x, y) THEN None ELSE Some(TruncRem(x, y))

\* variant: only a count above the width is rejected
checked_shr_AboveWidth(k, x, n) ==
    IF n < 0 \/ n > BITS(k) THEN None ELSE Some(ShrBits(k, x, n))

checked_shr(k, x, n) ==
    IF AsU32Ge(n, BITS(k)) THEN None ELSE Some(ShrBits(k, x, n))

checked_neg(k, x) == IF InRange(k, -x) THEN Some(-x) ELSE None

(***************************************************************************)
(* wrapping_*: the result modulo 2^BITS; division by zero still panics.    *)
(***************************************************************************)
wrapping_add(k, x, y) == Return(WrapTo(k, x + y))

wrapping_sub(k, x, y) == Return(WrapTo(k, x - y))

wrapping_mul(k, x, y) == Return(WrapTo(k, x * y))

\* variant: the overflowing quotient is clamped to MAX instead of wrapping
wrapping_div_Saturating(k, x, y) ==
    IF y = 0 THEN Panicked
    ELSE IF DivOverflows(k, x, y) THEN Return(MAX(k))
    ELSE Return(TruncDiv(x, y))

wrapping_div(k, x, y) ==
    IF y = 0 THEN Panicked
    ELSE IF DivOverflows(k, x, y) THEN Return(MIN(k))
    ELSE Return(TruncDiv(x, y))

\* variant: a zero divisor yields zero instead of a panic
wrapping_rem_ZeroOnZero(k, x, y) ==
    IF y = 0 \/ DivOverflows(k, x, y) THEN Return(0) ELSE Return(TruncRem(x, y))

wrapping_rem(k, x, y) ==
    IF y = 0 THEN Panicked
    ELSE IF DivOverflows(k, x, y) THEN Return(0)
    ELSE Return(TruncRem(x, y))

\* variant: a count at or above the width yields zero instead of being masked
wrapping_shl_ZeroPastWidth(k, x, n) ==
    IF AsU32Ge(n, BITS(k)) THEN Return(0) ELSE Return(ShlBits(k, x, n))

wrapping_shl(k, x, n) == Return(ShlBits(k, x, MaskCount(k, n)))

wrapping_shr(k, x, n) == Return(ShrBits(k, x, MaskCount(k, n)))

wrapping_neg(k, x) == Return(WrapTo(k, -x))

(***************************************************************************)
(* saturating_*: the result clamped to [MIN, MAX].                         *)
(***************************************************************************)
Clamp(k, x) == IF x > MAX(k) THEN MAX(k) ELSE IF x < MIN(k) THEN MIN(k) ELSE x

saturating_add(k, x, y) == Return(Clamp(k, x + y))

saturating_sub(k, x, y) == Return(Clamp(k, x - y))

saturating_mul(k, x, y) == Return(Clamp(k, x * y))

(***************************************************************************)
(* The native operators `/` and `%` on integers: they panic on a zero      *)
(* divisor and on MIN / -1 in every build.                                 *)
(***************************************************************************)
native_div(k, x, y) ==
    IF y = 0 \/ DivOverflows(k, x, y) THEN Panicked ELSE Return(TruncDiv(x, y))

native_rem(k, x, y) ==
    IF y = 0 \/ DivOverflows(k, x, y) THEN Panicked ELSE Return(TruncRem(x, y))

\* Some(x) => x, None => panic!("arithmetic overflow")
unwrap_or_panic(o) == IF o.ok THEN Return(o.val) ELSE Panicked

(***************************************************************************)
(* Entry points for Add, Sub, Mul, Div and Rem (receiver and right-hand    *)
(* side of the same kind).                                                 *)
(***************************************************************************)
\* variant: the panicking add forwards to the wrapping add
add_panic_Wrapping(k, x, y) == wrapping_add(k, x, y)

add_panic(k, x, y) == unwrap_or_panic(checked_add(k, x, y))

sub_panic(k, x, y) == unwrap_or_panic(checked_sub(k, x, y))

mul_panic(k, x, y) == unwrap_or_panic(checked_mul(k, x, y))

div_panic(k, x, y) == unwrap_or_panic(checked_div(k, x, y))

rem_panic(k, x, y) == unwrap_or_panic(checked_rem(k, x, y))

add_wrap(k, x, y) == wrapping_add(k, x, y)

sub_wrap(k, x, y) == wrapping_sub(k, x, y)

mul_wrap(k, x, y) == wrapping_mul(k, x, y)

div_wrap(k, x, y) == wrapping_div(k, x, y)

rem_wrap(k, x, y) == wrapping_rem(k, x, y)

add_saturate(k, x, y) == saturating_add(k, x, y)

sub_saturate(k, x, y) == saturating_sub(k, x, y)

\* variant: the saturating multiply forwards to the wrapping multiply
mul_saturate_Wrapping(k, x, y) == wrapping_mul(k, x, y)

mul_saturate(k, x, y) == saturating_mul(k, x, y)

\* variant: signed kinds instantiated with the unsigned macro's zero arm
div_saturate_UnsignedZeroArm(k, x, y) ==
    CASE y = 0  -> (IF x = 0 THEN Return(0) ELSE Return(MAX(k)))
      [] y = -1 /\ Signed(k) ->
            (IF x = MIN(k) THEN Return(MAX(k)) ELSE Return(-x))
      [] OTHER  -> native_div(k, x, y)

\* variant: no arm for a divisor of -1
div_saturate_NoMinusOneArm(k, x, y) ==
    CASE y = 0  -> (IF x > 0 THEN Return(MAX(k))
                    ELSE IF x = 0 THEN Return(0)
                    ELSE Return(MIN(k)))
      [] OTHER  -> native_div(k, x, y)

\* saturate_signed! and saturate_unsigned!: the match on rhs
div_saturate(k, x, y) ==
    IF Signed(k)
    THEN CASE y = 0  -> (IF x > 0 THEN Return(MAX(k))
                         ELSE IF x = 0 THEN Return(0)
                         ELSE Return(MIN(k)))
           [] y = -1 -> (IF x = MIN(k) THEN Return(MAX(k)) ELSE Return(-x))
           [] OTHER  -> native_div(k, x, y)
    ELSE CASE y = 0  -> (IF x = 0 THEN Return(0) ELSE Return(MAX(k)))
           [] OTHER  -> native_div(k, x, y)

\* variant: a negative dividend saturates to MIN on a zero divisor
rem_saturate_SignedMin(k, x, y) ==
    IF y = 0
    THEN (IF x = 0 THEN Return(0)
          ELSE IF x < 0 THEN Return(MIN(k)) ELSE Return(MAX(k)))
    ELSE native_rem(k, x, y)

rem_saturate(k, x, y) ==
    IF y = 0 THEN (IF x = 0 THEN Return(0) ELSE Return(MAX(k)))
    ELSE native_rem(k, x, y)

(***************************************************************************)
(* Entry points for Shl and Shr (the count n is of any integer type).      *)
(***************************************************************************)
\* the pointer widths the crate has a USIZE_BITS / ISIZE_BITS for
PointerWidths == {16, 32, 64}

USIZE_BITS(t) == CASE t = 16 -> 16 [] t = 32 -> 16 [] t = 64 -> 64

ISIZE_BITS(t) == CASE t = 16 -> 15 [] t = 32 -> 31 [] t = 64 -> 63

\* the $bits the macro is invoked with for kind k on a target of width t
bits(k, t) ==
    CASE k = "u8" -> 8
      [] k = "u16" -> 16
      [] k = "u32" -> 32
      [] k = "u64" -> 64
      [] k = "usize" -> USIZE_BITS(t)
      [] k = "i8" -> 7
      [] k = "i16" -> 15
      [] k = "i32" -> 31
      [] k = "i64" -> 64
      [] k = "isize" -> ISIZE_BITS(t)

\* the $bits the impls of kind k compare the count against on the target
\* the crate is built for
ShiftBits(k) == bits(k, target)

shl_wrap(k, x, n) == wrapping_shl(k, x, n)

shr_wrap(k, x, n) == wrapping_shr(k, x, n)

shr_panic(k, x, n) == unwrap_or_panic(checked_shr(k, x, n))

\* the test both the saturating and the panicking left shift make
ShlLosesBits(k, x, n) ==
    IF ~Signed(k) THEN AsUsizeGe(n, ShiftBits(k)) \/ ShrBits(k, MAX(k), n) < x
    ELSE IF x > 0 THEN AsUsizeGe(n, ShiftBits(k)) \/ ShrBits(k, MAX(k), n) < x
    ELSE AsUsizeGe(n, ShiftBits(k)) \/ ShrBits(k, MIN(k), n) > x

\* variant: a negative operand saturates to MAX, as in the unsigned macro
shl_saturate_AlwaysMax(k, x, n) ==
    IF x = 0 THEN Return(0)
    ELSE IF ShlLosesBits(k, x, n) THEN Return(MAX(k))
    ELSE Return(ShlBits(k, x, n))

shl_saturate(k, x, n) ==
    IF x = 0 THEN Return(0)
    ELSE IF ShlLosesBits(k, x, n)
         THEN (IF x > 0 THEN Return(MAX(k)) ELSE Return(MIN(k)))
         ELSE Return(ShlBits(k, x, n))

shr_saturate(k, x, n) ==
    IF AsUsizeGe(n, ShiftBits(k)) THEN Return(0) ELSE Return(ShrBits(k, x, n))

\* variant: the panicking left shift forwards to the wrapping one
shl_panic_Wrapping(k, x, n) == wrapping_shl(k, x, n)

shl_panic(k, x, n) ==
    IF x = 0 THEN Return(0)
    ELSE IF ShlLosesBits(k, x, n) THEN Panicked
    ELSE Return(ShlBits(k, x, n))

(***************************************************************************)
(* Entry points for Neg (signed kinds only) and Abs.                       *)
(***************************************************************************)
neg_panic(k, x) == unwrap_or_panic(checked_neg(k, x))

neg_wrap(k, x) == wrapping_neg(k, x)

\* variant: no test for MIN, the negation wraps
neg_saturate_NoMinTest(k, x) == wrapping_neg(k, x)

neg_saturate(k, x) == IF x = MIN(k) THEN Return(MAX(k)) ELSE Return(-x)

\* variant: the difference from zero is taken with wrapping subtraction
abs_panic_Wrapping(k, x) ==
    IF Signed(k) /\ x < 0 THEN sub_wrap(k, 0, x) ELSE Return(x)

abs_panic(k, x) == IF Signed(k) /\ x < 0 THEN sub_panic(k, 0, x) ELSE Return(x)

\* variant: the operands of the subtraction are swapped
abs_wrap_Swapped(k, x) ==
    IF Signed(k) /\ x < 0 THEN sub_wrap(k, x, 0) ELSE Return(x)

abs_wrap(k, x) == IF Signed(k) /\ x < 0 THEN sub_wrap(k, 0, x) ELSE Return(x)

abs_saturate(k, x) ==
    IF Signed(k) /\ x < 0 THEN sub_saturate(k, 0, x) ELSE Return(x)

(***************************************************************************)
(* In-place entry points (`&mut self`).  The outcome is the value stored   *)
(* into *self, or a panic raised before the store.                         *)
(***************************************************************************)
add_assign_panic(k, x, y) == unwrap_or_panic(checked_add(k, x, y))

sub_assign_panic(k, x, y) == unwrap_or_panic(checked_sub(k, x, y))

mul_assign_panic(k, x, y) == unwrap_or_panic(checked_mul(k, x, y))

div_assign_panic(k, x, y) == unwrap_or_panic(checked_div(k, x, y))

rem_assign_panic(k, x, y) == unwrap_or_panic(checked_rem(k, x, y))

add_assign_wrap(k, x, y) == wrapping_add(k, x, y)

sub_assign_wrap(k, x, y) == wrapping_sub(k, x, y)

mul_assign_wrap(k, x, y) == wrapping_mul(k, x, y)

div_assign_wrap(k, x, y) == wrapping_div(k, x, y)

rem_assign_wrap(k, x, y) == wrapping_rem(k, x, y)

shl_assign_wrap(k, x, n) == wrapping_shl(k, x, n)

shr_assign_wrap(k, x, n) == wrapping_shr(k, x, n)

shr_assign_panic(k, x, n) == unwrap_or_panic(checked_shr(k, x, n))

unwrap_or(o, d) == IF o.ok THEN Return(o.val) ELSE Return(d)

shl_assign_saturate(k, x, n) ==
    IF x = 0 THEN Return(x)
    ELSE IF ~Signed(k)
         THEN (IF AsUsizeGe(n, ShiftBits(k)) \/ ShrBits(k, MAX(k), n) < x
               THEN Return(MAX(k)) ELSE Return(ShlBits(k, x, n)))
    ELSE IF x > 0
         THEN (IF AsUsizeGe(n, ShiftBits(k)) \/ ShrBits(k, MAX(k), n) < x
               THEN Return(MAX(k)) ELSE Return(ShlBits(k, x, n)))
    ELSE (IF AsUsizeGe(n, ShiftBits(k)) \/ ShrBits(k, MIN(k), n) > x
          THEN Return(MIN(k)) ELSE Return(ShlBits(k, x, n)))

shr_assign_saturate(k, x, n) == unwrap_or(checked_shr(k, x, n), 0)

\* the native `>>=`: a count outside the width panics in a build with
\* overflow checks and is masked to the width in a build without them
native_shr_assign(k, x, n) ==
    IF AsU32Ge(n, BITS(k))
    THEN {Panicked, Return(ShrBits(k, x, MaskCount(k, n)))}
    ELSE {Return(ShrBits(k, x, n))}

\* the method of the same name of trait ShrSaturateAssign, which has the
\* blanket impl only: the outcomes of `*self >>= rhs`
ShrSaturateAssign_shr_assign_saturate(k, x, n) == native_shr_assign(k, x, n)

shl_assign_panic(k, x, n) ==
    IF x = 0 THEN Return(x)
    ELSE IF ~Signed(k)
         THEN (IF AsUsizeGe(n, ShiftBits(k)) \/ ShrBits(k, MAX(k), n) < x
               THEN Panicked ELSE Return(ShlBits(k, x, n)))
    ELSE IF x > 0
         THEN (IF AsUsizeGe(n, ShiftBits(k)) \/ ShrBits(k, MAX(k), n) < x
               THEN Panicked ELSE Return(ShlBits(k, x, n)))
    ELSE (IF AsUsizeGe(n, ShiftBits(k)) \/ ShrBits(k, MIN(k), n) > x
          THEN Panicked ELSE Return(ShlBits(k, x, n)))

(***************************************************************************)
(* The state machine: one call per behaviour.                              *)
(***************************************************************************)
Init ==
    /\ kind \in Kinds
    /\ rty \in Kinds
    /\ a \in Vals(kind)
    /\ b \in Vals(rty)
    /\ pc = "ready"
    /\ op = "none"
    /\ res = NotCalled
    /\ sel = {}
    /\ self = a
    /\ target = 64
    /\ items = <<>>
    /\ taken = 0

\* a call of entry point name that ends with outcome r
Call(name, r) ==
    /\ pc = "ready"
    /\ pc' = "done"
    /\ op' = name
    /\ res' = r
    /\ UNCHANGED <<kind, rty, a, b, sel, self, target, items, taken>>

\* variant: a panicking in-place call leaves zero in the receiver
CallAssign_ClobberOnPanic(name, r) ==
    /\ pc = "ready"
    /\ pc' = "done"
    /\ op' = name
    /\ res' = r
    /\ self' = IF r.ok THEN r.val ELSE 0
    /\ UNCHANGED <<kind, rty, a, b, sel, target, items, taken>>

\* a call of in-place entry point name: the store into *self happens only
\* when the right-hand side was computed without a panic
CallAssign(name, r) ==
    /\ pc = "ready"
    /\ pc' = "done"
    /\ op' = name
    /\ res' = r
    /\ self' = IF r.ok THEN r.val ELSE self
    /\ UNCHANGED <<kind, rty, a, b, sel, target, items, taken>>

\* the impls for Add..Rem exist for `impl Trait<$ty> for $ty` only
SameKind == rty = kind

AddPanic == SameKind /\ Call("add_panic", add_panic(kind, a, b))

SubPanic == SameKind /\ Call("sub_panic", sub_panic(kind, a, b))

MulPanic == SameKind /\ Call("mul_panic", mul_panic(kind, a, b))

DivPanic == SameKind /\ Call("div_panic", div_panic(kind, a, b))

RemPanic == SameKind /\ Call("rem_panic", rem_panic(kind, a, b))

AddWrap == SameKind /\ Call("add_wrap", add_wrap(kind, a, b))

SubWrap == SameKind /\ Call("sub_wrap", sub_wrap(kind, a, b))

MulWrap == SameKind /\ Call("mul_wrap", mul_wrap(kind, a, b))

DivWrap == SameKind /\ Call("div_wrap", div_wrap(kind, a, b))

RemWrap == SameKind /\ Call("rem_wrap", rem_wrap(kind, a, b))

AddSaturate == SameKind /\ Call("add_saturate", add_saturate(kind, a, b))

SubSaturate == SameKind /\ Call("sub_saturate", sub_saturate(kind, a, b))

MulSaturate == SameKind /\ Call("mul_saturate", mul_saturate(kind, a, b))

DivSaturate == SameKind /\ Call("div_saturate", div_saturate(kind, a, b))

RemSaturate == SameKind /\ Call("rem_saturate", rem_saturate(kind, a, b))

ShlWrap == Call("shl_wrap", shl_wrap(kind, a, b))

ShrWrap == Call("shr_wrap", shr_wrap(kind, a, b))

ShlPanic == Call("shl_panic", shl_panic(kind, a, b))

ShrPanic == Call("shr_panic", shr_panic(kind, a, b))

ShlSaturate == Call("shl_saturate", shl_saturate(kind, a, b))

ShrSaturate == Call("shr_saturate", shr_saturate(kind, a, b))

NegPanic == Signed(kind) /\ Call("neg_panic", neg_panic(kind, a))

NegWrap == Signed(kind) /\ Call("neg_wrap", neg_wrap(kind, a))

NegSaturate == Signed(kind) /\ Call("neg_saturate", neg_saturate(kind, a))

AbsPanic == Call("abs_panic", abs_panic(kind, a))

AbsWrap == Call("abs_wrap", abs_wrap(kind, a))

AbsSaturate == Call("abs_saturate", abs_saturate(kind, a))

AddAssignPanic == SameKind /\ CallAssign("add_assign_panic", add_assign_panic(kind, a, b))

AddAssignWrap == SameKind /\ CallAssign("add_assign_wrap", add_assign_wrap(kind, a, b))

SubAssignPanic == SameKind /\ CallAssign("sub_assign_panic", sub_assign_panic(kind, a, b))

SubAssignWrap == SameKind /\ CallAssign("sub_assign_wrap", sub_assign_wrap(kind, a, b))

MulAssignPanic == SameKind /\ CallAssign("mul_assign_panic", mul_assign_panic(kind, a, b))

MulAssignWrap == SameKind /\ CallAssign("mul_assign_wrap", mul_assign_wrap(kind, a, b))

DivAssignPanic == SameKind /\ CallAssign("div_assign_panic", div_assign_panic(kind, a, b))

DivAssignWrap == SameKind /\ CallAssign("div_assign_wrap", div_assign_wrap(kind, a, b))

RemAssignPanic == SameKind /\ CallAssign("rem_assign_panic", rem_assign_panic(kind, a, b))

RemAssignWrap == SameKind /\ CallAssign("rem_assign_wrap", rem_assign_wrap(kind, a, b))

ShlAssignWrap == CallAssign("shl_assign_wrap", shl_assign_wrap(kind, a, b))

ShrAssignWrap == CallAssign("shr_assign_wrap", shr_assign_wrap(kind, a, b))

ShlAssignPanic == CallAssign("shl_assign_panic", shl_assign_panic(kind, a, b))

ShrAssignPanic == CallAssign("shr_assign_panic", shr_assign_panic(kind, a, b))

ShlAssignSaturate == CallAssign("shl_assign_saturate", shl_assign_saturate(kind, a, b))

ShrAssignSaturate == CallAssign("shr_assign_saturate", shr_assign_saturate(kind, a, b))

ShrSaturateAssign ==
    \E r \in ShrSaturateAssign_shr_assign_saturate(kind, a, b) :
        CallAssign("ShrSaturateAssign::shr_assign_saturate", r)

Next ==
    \/ AddPanic \/ SubPanic \/ MulPanic \/ DivPanic \/ RemPanic
    \/ AddWrap \/ SubWrap \/ MulWrap \/ DivWrap \/ RemWrap
    \/ AddSaturate \/ SubSaturate \/ MulSaturate \/ DivSaturate \/ RemSaturate
    \/ ShlWrap \/ ShrWrap \/ ShlPanic \/ ShrPanic \/ ShlSaturate \/ ShrSaturate
    \/ NegPanic \/ NegWrap \/ NegSaturate
    \/ AbsPanic \/ AbsWrap \/ AbsSaturate
    \/ AddAssignPanic \/ SubAssignPanic \/ MulAssignPanic \/ DivAssignPanic
    \/ RemAssignPanic
    \/ AddAssignWrap \/ SubAssignWrap \/ MulAssignWrap \/ DivAssignWrap
    \/ RemAssignWrap
    \/ ShlAssignWrap \/ ShrAssignWrap \/ ShlAssignPanic \/ ShrAssignPanic
    \/ ShlAssignSaturate \/ ShrAssignSaturate \/ ShrSaturateAssign

Spec == Init /\ [][Next]_vars

TypeOK ==
    /\ kind \in Kinds /\ rty \in Kinds
    /\ a \in Vals(kind) /\ b \in Vals(rty)
    /\ pc \in {"ready", "done"}
    /\ InRange(kind, self)
    /\ res.ok \in BOOLEAN
    /\ (pc = "done" /\ res.ok) => InRange(kind, res.val)

(***************************************************************************)
(* Reference notions the properties are stated against.                    *)
(***************************************************************************)
Done(name) == pc = "done" /\ op = name

\* the true mathematical result of the base operation of an entry point
MathResult(name, x, y) ==
    CASE name \in {"add_wrap", "add_panic", "add_saturate"} -> x + y
      [] name \in {"sub_wrap", "sub_panic", "sub_saturate"} -> x - y
      [] name \in {"mul_wrap", "mul_panic", "mul_saturate"} -> x * y

\* q is the quotient of x by y rounded toward zero
IsTruncQuot(x, y, q) ==
    LET r == x - q * y
    IN  Abs(r) < Abs(y) /\ (r = 0 \/ (r > 0) = (x > 0))

\* r is the remainder x - y * trunc(x / y)
IsTruncRem(x, y, r) ==
    /\ Abs(r) < Abs(y)
    /\ (r = 0 \/ (r > 0) = (x > 0))
    /\ (x - r) % Abs(y) = 0

\* C1: add_wrap, sub_wrap and mul_wrap return the value of the kind that is
\* congruent to the true sum, difference or product modulo 2^width.
C1_WrapIsModular ==
    (pc = "done" /\ op \in {"add_wrap", "sub_wrap", "mul_wrap"}) =>
        /\ res.ok
        /\ InRange(kind, res.val)
        /\ (res.val - MathResult(op, a, b)) % Pow2(BITS(kind)) = 0

C1_Witness ==
    Done("sub_wrap") /\ kind = "u8" /\ a = 1 /\ b = 2 /\ res = Return(255)

\* C2: add_panic, sub_panic and mul_panic return the true result when it lies
\* in [MIN, MAX] and panic otherwise.
C2_PanicChecksRange ==
    (pc = "done" /\ op \in {"add_panic", "sub_panic", "mul_panic"}) =>
        IF InRange(kind, MathResult(op, a, b))
        THEN res = Return(MathResult(op, a, b))
        ELSE ~res.ok

C2_Witness ==
    Done("add_panic") /\ kind = "u8" /\ a = 255 /\ b = 2 /\ ~res.ok

\* C3: add_saturate, sub_saturate and mul_saturate return the true result when
\* it is in range, MAX when it is above MAX and MIN when it is below MIN.
C3_SaturateClamps ==
    (pc = "done" /\ op \in {"add_saturate", "sub_saturate", "mul_saturate"}) =>
        LET t == MathResult(op, a, b)
        IN  /\ res.ok
            /\ (InRange(kind, t) => res.val = t)
            /\ (t > MAX(kind) => res.val = MAX(kind))
            /\ (t < MIN(kind) => res.val = MIN(kind))

C3_Witness ==
    Done("mul_saturate") /\ kind = "u8" /\ a = 16 /\ b = 16 /\ res = Return(255)

WrapEntryPoints ==
    {"add_wrap", "sub_wrap", "mul_wrap", "div_wrap", "rem_wrap",
     "shl_wrap", "shr_wrap", "neg_wrap", "abs_wrap"}

SaturateEntryPoints ==
    {"add_saturate", "sub_saturate", "mul_saturate", "div_saturate",
     "rem_saturate", "shl_saturate", "shr_saturate", "neg_saturate",
     "abs_saturate"}

\* C4: every Wrap and every Saturate entry point returns a value for every
\* operand, a zero divisor and a shift count at or above the width included.
C4_WrapSaturateNeverFail ==
    (pc = "done" /\ op \in WrapEntryPoints \cup SaturateEntryPoints) => res.ok

(***************************************************************************)
(* The native operators the blanket impls forward to.  Arithmetic overflow *)
(* and an out-of-width shift count panic in a build with overflow checks   *)
(* and wrap (mask the count) in a build without: both outcomes are listed. *)
(***************************************************************************)
native_outcomes(base, k, x, y) ==
    CASE base = "add" -> IF InRange(k, x + y) THEN {Return(x + y)}
                         ELSE {Panicked, Return(WrapTo(k, x + y))}
      [] base = "sub" -> IF InRange(k, x - y) THEN {Return(x - y)}
                         ELSE {Panicked, Return(WrapTo(k, x - y))}
      [] base = "mul" -> IF InRange(k, x * y) THEN {Return(x * y)}
                         ELSE {Panicked, Return(WrapTo(k, x * y))}
      [] base = "div" -> {native_div(k, x, y)}
      [] base = "rem" -> {native_rem(k, x, y)}
      [] base = "shl" -> IF AsU32Ge(y, BITS(k))
                         THEN {Panicked, Return(ShlBits(k, x, MaskCount(k, y)))}
                         ELSE {Return(ShlBits(k, x, y))}
      [] base = "shr" -> IF AsU32Ge(y, BITS(k))
                         THEN {Panicked, Return(ShrBits(k, x, MaskCount(k, y)))}
                         ELSE {Return(ShrBits(k, x, y))}

PanicBinaryEntryPoints ==
    {"add_panic", "sub_panic", "mul_panic", "div_panic", "rem_panic",
     "shl_panic", "shr_panic"}

BaseOf(name) ==
    CASE name = "add_panic" -> "add" [] name = "sub_panic" -> "sub"
      [] name = "mul_panic" -> "mul" [] name = "div_panic" -> "div"
      [] name = "rem_panic" -> "rem" [] name = "shl_panic" -> "shl"
      [] name = "shr_panic" -> "shr"

SaturateOf(base, k, x, y) ==
    CASE base = "add" -> add_saturate(k, x, y)
      [] base = "sub" -> sub_saturate(k, x, y)
      [] base = "mul" -> mul_saturate(k, x, y)
      [] base = "div" -> div_saturate(k, x, y)
      [] base = "rem" -> rem_saturate(k, x, y)
      [] base = "shl" -> shl_saturate(k, x, y)
      [] base = "shr" -> shr_saturate(k, x, y)

\* C5: a Panic entry point of a binary operation fails when the Saturate
\* result differs from the native result or the native result is undefined,
\* and returns the common value when the two are equal.
C5_PanicAgreement ==
    (pc = "done" /\ op \in PanicBinaryEntryPoints) =>
        LET sat == SaturateOf(BaseOf(op), kind, a, b)
            nat == native_outcomes(BaseOf(op), kind, a, b)
        IN  IF sat.ok /\ nat = {sat} THEN res = sat ELSE ~res.ok

\* C6: div_wrap, rem_wrap, div_panic and rem_panic all fail on a zero divisor.
C6_DivByZeroFails ==
    (pc = "done" /\ b = 0
        /\ op \in {"div_wrap", "rem_wrap", "div_panic", "rem_panic"}) => ~res.ok

C6_Witness == Done("rem_wrap") /\ kind = "i8" /\ a = -5 /\ b = 0 /\ ~res.ok

\* C7: div_saturate(a, 0) is MAX for a > 0, MIN for a < 0 and 0 for a = 0.
C7_DivSaturateByZero ==
    (Done("div_saturate") /\ b = 0) =>
        /\ (a > 0 => res = Return(MAX(kind)))
        /\ (a < 0 => res = Return(MIN(kind)))
        /\ (a = 0 => res = Return(0))

C7_Witness ==
    Done("div_saturate") /\ kind = "i8" /\ a = -5 /\ b = 0 /\ res = Return(-128)

\* C8: rem_saturate(a, 0) is MAX for every nonzero a, negative ones included,
\* and 0 for a = 0.
C8_RemSaturateByZero ==
    (Done("rem_saturate") /\ b = 0) =>
        /\ (a # 0 => res = Return(MAX(kind)))
        /\ (a = 0 => res = Return(0))

C8_Witness ==
    Done("rem_saturate") /\ kind = "i8" /\ a = -5 /\ b = 0 /\ res = Return(127)

\* C9: for a signed kind, MIN / -1 saturates to MAX, wraps to MIN and panics
\* under the Panic policy.
C9_MinDivMinusOne ==
    (pc = "done" /\ Signed(kind) /\ a = MIN(kind) /\ b = -1) =>
        /\ (op = "div_saturate" => res = Return(MAX(kind)))
        /\ (op = "div_wrap" => res = Return(MIN(kind)))
        /\ (op = "div_panic" => ~res.ok)

C9_Witness ==
    Done("div_wrap") /\ kind = "i16" /\ a = -32768 /\ b = -1
        /\ res = Return(-32768)

\* C10: for a nonzero divisor and (a, b) other than (MIN, -1), the three Div
\* entry points return the quotient rounded toward zero and the three Rem
\* entry points return the remainder a - b * trunc(a / b).
C10_DivRemAgree ==
    (pc = "done" /\ b # 0 /\ ~(Signed(kind) /\ a = MIN(kind) /\ b = -1)) =>
        /\ (op \in {"div_wrap", "div_panic", "div_saturate"} =>
                res.ok /\ IsTruncQuot(a, b, res.val))
        /\ (op \in {"rem_wrap", "rem_panic", "rem_saturate"} =>
                res.ok /\ IsTruncRem(a, b, res.val))

C10_Witness ==
    Done("rem_saturate") /\ kind = "i8" /\ a = -5 /\ b = 2 /\ res = Return(-1)


\* x * 2^n is not a value of kind k (for a nonzero x and a count n >= 0); a
\* count at or above the width always shifts a set bit out
ShlOutOfRange(k, x, n) == n >= BITS(k) \/ ~InRange(k, x * Pow2(n))

\* C11 on the kinds u8, i8 and i16: shl_saturate(a, n) for n >= 0 is 0 when
\* a = 0; otherwise MAX (a > 0) or MIN (a < 0) when a * 2^n is not
\* representable, and a * 2^n when it is.
C11_ShlSaturate ==
    (Done("shl_saturate") /\ b >= 0) =>
        IF a = 0 THEN res = Return(0)
        ELSE IF ShlOutOfRange(kind, a, b)
             THEN res = Return(IF a > 0 THEN MAX(kind) ELSE MIN(kind))
             ELSE res = Return(a * Pow2(b))

C11_Witness ==
    Done("shl_saturate") /\ kind = "u8" /\ a = 1 /\ b = 10 /\ res = Return(255)

\* C12: shl_panic(a, n) panics for a nonzero a whenever a * 2^n is not
\* representable (every n at or above the width included), and shl_panic(0, n)
\* returns 0 for every n.
C12_ShlPanicOnLostBits ==
    Done("shl_panic") =>
        /\ (a = 0 => res = Return(0))
        /\ (a # 0 /\ b >= 0 /\ ShlOutOfRange(kind, a, b) => ~res.ok)

C12_Witness ==
    Done("shl_panic") /\ kind = "i8" /\ a = 64 /\ b = 1 /\ ~res.ok

\* C13: shl_wrap(a, n) is a shifted left by n mod width bits, the bits shifted
\* past the width discarded: the value of the kind congruent to
\* a * 2^(n mod width) modulo 2^width.
C13_ShlWrapMasksCount ==
    Done("shl_wrap") =>
        /\ res.ok
        /\ InRange(kind, res.val)
        /\ (res.val - a * Pow2(b % BITS(kind))) % Pow2(BITS(kind)) = 0

C13_Witness ==
    Done("shl_wrap") /\ kind = "u8" /\ a = 3 /\ b = 9 /\ res = Return(6)


\* r is x shifted right by n bits: the floor of x / 2^n (arithmetic shift for
\* a negative x, logical shift for an unsigned x)
IsShr(x, n, r) == r * Pow2(n) <= x /\ x < (r + 1) * Pow2(n)

\* C14: shr_wrap and shr_saturate return zero whenever the shift count is at
\* or above the width.
C14_ShrZeroPastWidth ==
    (pc = "done" /\ op \in {"shr_wrap", "shr_saturate"} /\ b >= BITS(kind)) =>
        res = Return(0)

\* C15: for a count 0 <= n < width, shr_wrap, shr_panic and shr_saturate all
\* return the ordinary right shift a >> n.
C15_ShrInWidth ==
    (pc = "done" /\ op \in {"shr_wrap", "shr_panic", "shr_saturate"}
        /\ 0 <= b /\ b < BITS(kind)) =>
        res.ok /\ IsShr(a, b, res.val)

C17_NegPerPolicy ==
    (pc = "done" /\ Signed(kind)
        /\ op \in {"neg_wrap", "neg_panic", "neg_saturate"}) =>
        IF a # MIN(kind) THEN res.ok /\ res.val + a = 0
        ELSE /\ (op = "neg_wrap" => res = Return(MIN(kind)))
             /\ (op = "neg_saturate" => res = Return(MAX(kind)))
             /\ (op = "neg_panic" => ~res.ok)

C17_Witness ==
    Done("neg_saturate") /\ kind = "i8" /\ a = -128 /\ res = Return(127)

\* C18: abs_wrap, abs_panic and abs_saturate return an unsigned operand
\* unchanged; for a signed kind they return |x| for every x other than MIN,
\* and at MIN abs_wrap returns MIN, abs_saturate returns MAX and abs_panic
\* panics.
C18_AbsPerPolicy ==
    (pc = "done" /\ op \in {"abs_wrap", "abs_panic", "abs_saturate"}) =>
        IF ~Signed(kind) THEN res = Return(a)
        ELSE IF a # MIN(kind)
             THEN res.ok /\ res.val >= 0 /\ res.val * res.val = a * a
             ELSE /\ (op = "abs_wrap" => res = Return(MIN(kind)))
                  /\ (op = "abs_saturate" => res = Return(MAX(kind)))
                  /\ (op = "abs_panic" => ~res.ok)

C18_Witness ==
    Done("abs_wrap") /\ kind = "i16" /\ a = -32768 /\ res = Return(-32768)


\* the negation entry point of the policy of an absolute-value entry point
NegOf(name, k, x) ==
    CASE name = "abs_panic" -> neg_panic(k, x)
      [] name = "abs_wrap" -> neg_wrap(k, x)
      [] name = "abs_saturate" -> neg_saturate(k, x)

\* C26: for a signed kind, any policy and a negative operand, the absolute
\* value agrees with the negation under the same policy: it panics exactly
\* when the negation panics and otherwise returns the same value.
C26_AbsIsNegOnNegative ==
    (pc = "done" /\ op \in {"abs_panic", "abs_wrap", "abs_saturate"}
        /\ Signed(kind) /\ a < 0) =>
        res = NegOf(op, kind, a)

C26_Witness ==
    /\ Done("abs_panic") /\ kind = "i8" /\ a = MIN("i8") /\ res = Panicked
    /\ neg_panic("i8", MIN("i8")) = Panicked

\* C27: for every kind and every nonzero divisor, the pair (MIN, -1)
\* included, add_wrap(mul_wrap(div_wrap(a, b), b), rem_wrap(a, b)) = a.
C27_WrapDivisionIdentity ==
    (Done("div_wrap") /\ b # 0) =>
        /\ res.ok
        /\ LET m == mul_wrap(kind, res.val, b)
               r == rem_wrap(kind, a, b)
           IN  /\ m.ok /\ r.ok
               /\ add_wrap(kind, m.val, r.val) = Return(a)

C27_Witness ==
    /\ Done("div_wrap") /\ kind = "i8" /\ a = MIN("i8") /\ b = -1
    /\ res = Return(MIN("i8"))
    /\ mul_wrap("i8", MIN("i8"), -1) = Return(MIN("i8"))

\* the value-returning entry point an in-place entry point corresponds to
ValueFormOf(name, k, x, y) ==
    CASE name = "add_assign_panic" -> add_panic(k, x, y)
      [] name = "sub_assign_panic" -> sub_panic(k, x, y)
      [] name = "mul_assign_panic" -> mul_panic(k, x, y)
      [] name = "div_assign_panic" -> div_panic(k, x, y)
      [] name = "rem_assign_panic" -> rem_panic(k, x, y)
      [] name = "add_assign_wrap" -> add_wrap(k, x, y)
      [] name = "sub_assign_wrap" -> sub_wrap(k, x, y)
      [] name = "mul_assign_wrap" -> mul_wrap(k, x, y)
      [] name = "div_assign_wrap" -> div_wrap(k, x, y)
      [] name = "rem_assign_wrap" -> rem_wrap(k, x, y)
      [] name = "shl_assign_wrap" -> shl_wrap(k, x, y)
      [] name = "shr_assign_wrap" -> shr_wrap(k, x, y)
      [] name = "shl_assign_panic" -> shl_panic(k, x, y)
      [] name = "shr_assign_panic" -> shr_panic(k, x, y)
      [] name = "shl_assign_saturate" -> shl_saturate(k, x, y)
      [] name = "shr_assign_saturate" -> shr_saturate(k, x, y)
      [] name = "ShrSaturateAssign::shr_assign_saturate" ->
            shr_saturate(k, x, y)

ArithAssignEntryPoints ==
    {"add_assign_panic", "sub_assign_panic", "mul_assign_panic",
     "div_assign_panic", "rem_assign_panic",
     "add_assign_wrap", "sub_assign_wrap", "mul_assign_wrap",
     "div_assign_wrap", "rem_assign_wrap"}

ShiftAssignEntryPoints ==
    {"shl_assign_wrap", "shr_assign_wrap", "shl_assign_panic",
     "shr_assign_panic", "shl_assign_saturate", "shr_assign_saturate",
     "ShrSaturateAssign::shr_assign_saturate"}

\* the in-place call agrees with value-returning outcome v: it panics exactly
\* when v is a panic, stores v's value on success, and keeps the receiver's
\* previous value on a panic
AssignAgrees(v) ==
    /\ res.ok = v.ok
    /\ v.ok => self = v.val
    /\ ~v.ok => self = a

\* C24: for every kind, shift direction, policy and operands x, n, the
\* in-place shift fails exactly when the value-returning shift fails and
\* otherwise leaves x equal to its result.
C24_ShiftAssignAgrees ==
    (pc = "done" /\ op \in ShiftAssignEntryPoints) =>
        AssignAgrees(ValueFormOf(op, kind, a, b))

\* C25: for add, sub, mul, div and rem under Panic and Wrap, the in-place
\* call fails exactly when the value-returning one fails, stores its result
\* on success, and leaves x at its previous value on failure.
C25_ArithAssignAgrees ==
    (pc = "done" /\ op \in ArithAssignEntryPoints) =>
        AssignAgrees(ValueFormOf(op, kind, a, b))

C25_Witness ==
    /\ Done("add_assign_panic") /\ kind = "u8" /\ a = 255 /\ b = 1
    /\ res = Panicked /\ self = 255

(***************************************************************************)
(* Dispatch: which impl a call of an entry point binds to.  Every trait    *)
(* has at most a blanket impl with a `default fn` that forwards to the     *)
(* std::ops operator, and kind-specific impls that specialise it.          *)
(***************************************************************************)
IntKinds ==
    {"u8", "u16", "u32", "u64", "usize", "i8", "i16", "i32", "i64", "isize"}

SignedKinds == {"i8", "i16", "i32", "i64", "isize"}

\* the integer types of std: the ten kinds the crate has impls for, and the
\* two 128-bit types it has none for
StdInts == IntKinds \cup {"u128", "i128"}

StdSigned == SignedKinds \cup {"i128"}

\* the owned types resolved: the integers of std and one non-integer type
Values == StdInts \cup {"f32"}

\* shared references to them
Refs ==
    {"&u8", "&u16", "&u32", "&u64", "&u128", "&usize",
     "&i8", "&i16", "&i32", "&i64", "&i128", "&isize", "&f32"}

\* the type a receiver or right-hand type holds: T for both T and &T
Deref(t) ==
    CASE t = "&u8" -> "u8" [] t = "&u16" -> "u16" [] t = "&u32" -> "u32"
      [] t = "&u64" -> "u64" [] t = "&u128" -> "u128" [] t = "&usize" -> "usize"
      [] t = "&i8" -> "i8" [] t = "&i16" -> "i16" [] t = "&i32" -> "i32"
      [] t = "&i64" -> "i64" [] t = "&i128" -> "i128" [] t = "&isize" -> "isize"
      [] t = "&f32" -> "f32"
      [] OTHER -> t

\* the receiver and right-hand types of a call site
Types == Values \cup Refs

\* one trait of the crate: its method, the std::ops bound of its blanket impl
\* ("none" when it has no blanket impl), the kinds with an impl of their own,
\* and the right-hand types those impls take
T(tr, me, ba, na, rh) ==
    [trait |-> tr, method |-> me, base |-> ba, narrow |-> na, rhs |-> rh]

Traits ==
    {T("AddPanic", "add_panic", "Add", IntKinds, "self"),
     T("AddAssignPanic", "add_assign_panic", "AddAssign", IntKinds, "self"),
     T("AddWrap", "add_wrap", "Add", IntKinds, "self"),
     T("AddAssignWrap", "add_assign_wrap", "AddAssign", IntKinds, "self"),
     T("AddSaturate", "add_saturate", "Add", IntKinds, "self"),
     T("SubPanic", "sub_panic", "Sub", IntKinds, "self"),
     T("SubAssignPanic", "sub_assign_panic", "SubAssign", IntKinds, "self"),
     T("SubWrap", "sub_wrap", "Sub", IntKinds, "self"),
     T("SubAssignWrap", "sub_assign_wrap", "SubAssign", IntKinds, "self"),
     T("SubSaturate", "sub_saturate", "Sub", IntKinds, "self"),
     T("MulPanic", "mul_panic", "Mul", IntKinds, "self"),
     T("MulAssignPanic", "mul_assign_panic", "MulAssign", IntKinds, "self"),
     T("MulWrap", "mul_wrap", "Mul", IntKinds, "self"),
     T("MulAssignWrap", "mul_assign_wrap", "MulAssign", IntKinds, "self"),
     T("MulSaturate", "mul_saturate", "Mul", IntKinds, "self"),
     T("DivPanic", "div_panic", "Div", IntKinds, "self"),
     T("DivAssignPanic", "div_assign_panic", "DivAssign", IntKinds, "self"),
     T("DivWrap", "div_wrap", "Div", IntKinds, "self"),
     T("DivAssignWrap", "div_assign_wrap", "DivAssign", IntKinds, "self"),
     T("DivSaturate", "div_saturate", "Div", IntKinds, "self"),
     T("RemPanic", "rem_panic", "Rem", IntKinds, "self"),
     T("RemAssignPanic", "rem_assign_panic", "RemAssign", IntKinds, "self"),
     T("RemWrap", "rem_wrap", "Rem", IntKinds, "self"),
     T("RemAssignWrap", "rem_assign_wrap", "RemAssign", IntKinds, "self"),
     T("RemSaturate", "rem_saturate", "Rem", IntKinds, "self"),
     T("ShrPanic", "shr_panic", "Shr", IntKinds, "int"),
     T("ShrAssignPanic", "shr_assign_panic", "ShrAssign", IntKinds, "int"),
     T("ShlWrap", "shl_wrap", "Shl", IntKinds, "int"),
     T("ShlAssignWrap", "shl_assign_wrap", "ShlAssign", IntKinds, "int"),
     T("ShrWrap", "shr_wrap", "Shr", IntKinds, "int"),
     T("ShrAssignWrap", "shr_assign_wrap", "ShrAssign", IntKinds, "int"),
     T("ShrSaturate", "shr_saturate", "Shr", IntKinds, "int"),
     T("ShrSaturateAssign", "shr_assign_saturate", "ShrAssign", {}, "int"),
     T("ShlSaturate", "shl_saturate", "Shl", IntKinds, "int"),
     T("ShlAssignSaturate", "shl_assign_saturate", "ShlAssign", IntKinds, "int"),
     T("ShlPanic", "shl_panic", "Shl", IntKinds, "int"),
     T("ShlAssignPanic", "shl_assign_panic", "ShlAssign", IntKinds, "int"),
     T("ShrAssignSaturate", "shr_assign_saturate", "none", IntKinds, "int"),
     T("NegPanic", "neg_panic", "Neg", SignedKinds, "unary"),
     T("NegWrap", "neg_wrap", "Neg", SignedKinds, "unary"),
     T("NegSaturate", "neg_saturate", "none", SignedKinds, "unary"),
     T("AbsPanic", "abs_panic", "none", IntKinds, "unary"),
     T("AbsWrap", "abs_wrap", "none", IntKinds, "unary"),
     T("AbsSaturate", "abs_saturate", "none", IntKinds, "unary")}

Methods == {t.method : t \in Traits}

\* variant: every integer kind, unsigned included, has the Neg operator
Supports_NegEverywhere(ty, base, rt) ==
    CASE base \in {"Add", "Sub", "Mul", "Div", "Rem"} -> Deref(rt) = Deref(ty)
      [] base \in {"AddAssign", "SubAssign", "MulAssign", "DivAssign",
                   "RemAssign"} -> ty \in Values /\ Deref(rt) = ty
      [] base \in {"Shl", "Shr"} ->
            Deref(ty) \in StdInts /\ Deref(rt) \in StdInts
      [] base \in {"ShlAssign", "ShrAssign"} ->
            ty \in StdInts /\ Deref(rt) \in StdInts
      [] base = "Neg" -> ty \in Types
      [] OTHER -> FALSE

\* the std::ops impls in scope.  Arithmetic is between two values of one
\* type, each taken by value or by reference; a shift is of any integer by
\* any integer, each by value or by reference; the in-place operators take
\* an owned receiver; negation is of signed integers and floats, by value or
\* by reference.
Supports(ty, base, rt) ==
    CASE base \in {"Add", "Sub", "Mul", "Div", "Rem"} -> Deref(rt) = Deref(ty)
      [] base \in {"AddAssign", "SubAssign", "MulAssign", "DivAssign",
                   "RemAssign"} -> ty \in Values /\ Deref(rt) = ty
      [] base \in {"Shl", "Shr"} ->
            Deref(ty) \in StdInts /\ Deref(rt) \in StdInts
      [] base \in {"ShlAssign", "ShrAssign"} ->
            ty \in StdInts /\ Deref(rt) \in StdInts
      [] base = "Neg" -> Deref(ty) \in StdSigned \cup {"f32"}
      [] OTHER -> FALSE

\* the kind-specific impl of trait t takes this receiver and right-hand type
NarrowApplies(t, ty, rt) ==
    /\ ty \in t.narrow
    /\ CASE t.rhs = "self" -> rt = ty
         [] t.rhs = "int" -> rt \in IntKinds
         [] OTHER -> TRUE

\* the blanket impl of trait t takes this receiver and right-hand type
BlanketApplies(t, ty, rt) == t.base # "none" /\ Supports(ty, t.base, rt)

\* a call that names the trait and both types, <ty as Trait<rt>>::m(..):
\* within one trait specialization picks the kind-specific impl over the
\* blanket one
Selection(t, ty, rt) ==
    IF NarrowApplies(t, ty, rt) THEN {[trait |-> t.trait, impl |-> "kind"]}
    ELSE IF BlanketApplies(t, ty, rt)
         THEN {[trait |-> t.trait, impl |-> "default"]}
    ELSE {}

\* the entry points that take `&mut self`
InPlaceMethods ==
    {"add_assign_panic", "sub_assign_panic", "mul_assign_panic",
     "div_assign_panic", "rem_assign_panic",
     "add_assign_wrap", "sub_assign_wrap", "mul_assign_wrap",
     "div_assign_wrap", "rem_assign_wrap",
     "shl_assign_wrap", "shr_assign_wrap", "shl_assign_panic",
     "shr_assign_panic", "shl_assign_saturate", "shr_assign_saturate"}

\* the receiver types a method call x.m(..) tries in turn: the type of x,
\* then the type it dereferences to
Steps(ty) == IF ty \in Refs THEN <<ty, Deref(ty)>> ELSE <<ty>>

\* trait t has an impl whose Self can be s for some right-hand type
Offers(t, s) ==
    \/ s \in t.narrow
    \/ t.base # "none" /\ \E r \in Types : Supports(s, t.base, r)

\* the traits in scope that supply method m for receiver type s
TraitCandidates(m, s) == {t \in Traits : t.method = m /\ Offers(t, s)}

\* the impl a single candidate trait binds to once the right-hand type is
\* known: where the kind has exactly one specialising impl (the arithmetic
\* traits) the right-hand type is inferred from it and the argument must
\* have it; otherwise the argument's type decides between the kind-specific
\* impls and the blanket one
Infer(t, s, rt) ==
    IF s \in t.narrow /\ t.rhs = "self"
    THEN (IF rt = s THEN {[trait |-> t.trait, impl |-> "kind"]} ELSE {})
    ELSE Selection(t, s, rt)

\* a method call x.m(y) with x: ty and y: rt.  The first receiver step with
\* a candidate is taken; two candidate traits there make the call ambiguous
\* (both are reported); an in-place method reached through a shared
\* reference cannot borrow the receiver mutably.
Resolution(m, ty, rt) ==
    LET steps == Steps(ty)
        hits == {i \in 1..Len(steps) : TraitCandidates(m, steps[i]) # {}}
    IN  IF hits = {} THEN {}
        ELSE LET i == CHOOSE i \in hits : \A j \in hits : i <= j
                 s == steps[i]
                 cs == TraitCandidates(m, s)
             IN  IF Cardinality(cs) > 1
                 THEN {[trait |-> t.trait,
                        impl |-> IF s \in t.narrow THEN "kind" ELSE "default"]
                       : t \in cs}
                 ELSE IF m \in InPlaceMethods /\ i > 1 THEN {}
                 ELSE UNION {Infer(t, s, rt) : t \in cs}

DispatchInit ==
    /\ kind \in Types
    /\ rty \in Types
    /\ a = 0
    /\ b = 0
    /\ pc = "ready"
    /\ op = "none"
    /\ res = NotCalled
    /\ sel = {}
    /\ self = 0
    /\ target = 64
    /\ items = <<>>
    /\ taken = 0

\* a method call x.m(y) of entry point m is compiled
Resolve ==
    /\ pc = "ready"
    /\ \E m \in Methods :
        /\ op' = m
        /\ sel' = Resolution(m, kind, rty)
    /\ pc' = "resolved"
    /\ UNCHANGED <<kind, rty, a, b, res, self, target, items, taken>>

\* a call <kind as Trait<rty>>::m(..) that names the trait is compiled
Select ==
    /\ pc = "ready"
    /\ \E t \in Traits :
        /\ op' = t.method
        /\ sel' = Selection(t, kind, rty)
    /\ pc' = "bound"
    /\ UNCHANGED <<kind, rty, a, b, res, self, target, items, taken>>

DispatchNext == Resolve \/ Select

DispatchSpec == DispatchInit /\ [][DispatchNext]_vars

\* the std::ops operator an entry point stands for ("none" for abs)
OperatorOf(m) ==
    LET ts == {t \in Traits : t.method = m /\ t.base # "none"}
    IN  CASE m \in {"neg_panic", "neg_wrap", "neg_saturate"} -> "Neg"
          [] m \in {"abs_panic", "abs_wrap", "abs_saturate"} -> "none"
          [] OTHER -> (CHOOSE t \in ts : TRUE).base

\* C19: for every entry point (the in-place ones included) and every integer
\* kind that has it, exactly one impl is selected and it is the kind-specific
\* one, never the blanket impl forwarding to the native operator.
C19_DispatchNarrow ==
    (pc \in {"resolved", "bound"} /\ kind \in IntKinds /\ sel # {}) =>
        /\ Cardinality(sel) = 1
        /\ \A i \in sel : i.impl = "kind"

\* C20: for a type outside the integer kinds that has the base operator, the
\* entry points of every policy bind to the blanket impl, whose result is the
\* native operator's.
C20_NonIntegerNative ==
    (pc = "resolved" /\ kind \notin IntKinds
        /\ Supports(kind, OperatorOf(op), rty)) =>
        /\ Cardinality(sel) = 1
        /\ \A i \in sel : i.impl = "default"

NegMethods == {"neg_panic", "neg_wrap", "neg_saturate"}

UnsignedKinds == IntKinds \ SignedKinds

\* C23 as stated: for every unsigned kind, negation under Wrap, Panic and
\* Saturate is the identity, neg_P(x) = x; in particular a call of neg_P on
\* an unsigned receiver binds to an impl that returns the operand.
C23_UnsignedNegIsIdentity ==
    (pc \in {"resolved", "bound"} /\ kind \in UnsignedKinds /\ op \in NegMethods) =>
        Cardinality(sel) = 1

\* C23 as the crate has it: no negation entry point exists for an unsigned
\* kind under any policy; neither a kind-specific nor the blanket impl
\* applies, so a call of neg_P on an unsigned receiver binds to nothing.
C23_UnsignedNegUndefined ==
    (pc \in {"resolved", "bound"} /\ kind \in UnsignedKinds /\ op \in NegMethods) =>
        sel = {}

C23_Witness ==
    /\ pc = "resolved" /\ kind = "u8" /\ op = "neg_wrap" /\ sel = {}
    /\ Resolution("neg_wrap", "i8", rty) = {[trait |-> "NegWrap", impl |-> "kind"]}

(***************************************************************************)
(* The $bits argument of the shift macros: one expansion of                *)
(* saturate_shl_unsigned! / saturate_shl_signed! per kind, right-hand type *)
(* and target pointer width.                                               *)
(***************************************************************************)
MacroInit ==
    /\ kind \in IntKinds
    /\ rty \in IntKinds
    /\ target \in PointerWidths
    /\ a = 0
    /\ b = 0
    /\ pc = "ready"
    /\ op = "none"
    /\ res = NotCalled
    /\ sel = {}
    /\ self = 0
    /\ items = <<>>
    /\ taken = 0

\* the impls of the shift traits for (kind, rty) are expanded with $bits
Expand ==
    /\ pc = "ready"
    /\ pc' = "expanded"
    /\ op' = IF kind \in SignedKinds THEN "saturate_shl_signed"
                                     ELSE "saturate_shl_unsigned"
    /\ res' = Return(bits(kind, target))
    /\ UNCHANGED <<kind, rty, a, b, sel, self, target, items, taken>>

MacroNext == Expand

MacroSpec == MacroInit /\ [][MacroNext]_vars

\* the real bit width of kind k on a target of pointer width t
RealWidth(k, t) ==
    CASE k \in {"u8", "i8"} -> 8
      [] k \in {"u16", "i16"} -> 16
      [] k \in {"u32", "i32"} -> 32
      [] k \in {"u64", "i64"} -> 64
      [] k \in {"usize", "isize"} -> t

\* the counts n for which 1 * 2^n is a value of kind k on target t
OneFits(k, t) ==
    {n \in 0..(RealWidth(k, t) - 1) :
        n <= RealWidth(k, t) - (IF k \in SignedKinds THEN 2 ELSE 1)}

\* C11: for every integer kind, shl_saturate(a, n) returns a * 2^n whenever
\* that is representable and saturates only otherwise.  For a = 1 this needs
\* every count n with 2^n representable to pass the impl's first test,
\* `rhs as usize >= $bits`, which otherwise returns MAX: n < $bits.
C11_ShlSaturateEveryKind ==
    pc = "expanded" =>
        \A n \in OneFits(kind, target) : n < res.val

\* C28: the threshold the saturating and panicking shifts compare the count
\* against is a uniform function of the real width: any two unsigned kinds
\* (usize on every target included) have the same threshold relative to
\* their width, and so have any two signed kinds.
C28_UniformThreshold ==
    pc = "expanded" =>
        \A k \in IntKinds, t \in PointerWidths :
            ((k \in SignedKinds) <=> (kind \in SignedKinds)) =>
                res.val - RealWidth(kind, target) = bits(k, t) - RealWidth(k, t)

(***************************************************************************)
(* Sum over an iterator (OverflowerSum).  A behaviour is one call of       *)
(* sum_wrap, sum_panic or sum_saturate on a finite sequence: the call      *)
(* starts from zero, takes the items one at a time with the policy's add,  *)
(* and a panic unwinds out of the call.                                    *)
(***************************************************************************)
MaxLen == 3

\* item values: the extremes of the kind, the values around zero, one inside
SumVals(k) == {v \in {MIN(k), -1, 0, 1, 100, MAX(k)} : InRange(k, v)}

SumSeqs(k) == UNION {[1..n -> SumVals(k)] : n \in 0..MaxLen}

SumMethods == {"sum_wrap", "sum_panic", "sum_saturate"}

\* the binary add of the policy of a sum entry point
AddOf(name, k, x, y) ==
    CASE name = "sum_wrap" -> add_wrap(k, x, y)
      [] name = "sum_panic" -> add_panic(k, x, y)
      [] name = "sum_saturate" -> add_saturate(k, x, y)

SumInit ==
    /\ kind \in Kinds
    /\ rty = kind
    /\ items \in SumSeqs(kind)
    /\ taken = 0
    /\ a = 0
    /\ b = 0
    /\ pc = "ready"
    /\ op = "none"
    /\ res = NotCalled
    /\ sel = {}
    /\ self = 0
    /\ target = 64

\* the call of sum entry point name begins with the additive identity
SumBegin(name) ==
    /\ pc = "ready"
    /\ pc' = "summing"
    /\ op' = name
    /\ res' = Return(0)
    /\ UNCHANGED <<kind, rty, a, b, sel, self, target, items, taken>>

SumWrap == SumBegin("sum_wrap")

SumPanic == SumBegin("sum_panic")

SumSaturate == SumBegin("sum_saturate")

\* variant: the items are taken from the back of the sequence
SumStep_FromBack ==
    /\ pc = "summing"
    /\ taken < Len(items)
    /\ LET r == AddOf(op, kind, res.val, items[Len(items) - taken])
       IN  /\ res' = r
           /\ pc' = IF r.ok THEN "summing" ELSE "done"
    /\ taken' = taken + 1
    /\ UNCHANGED <<kind, rty, a, b, op, sel, self, target, items>>

\* variant: an overflowing add wraps and the reduction carries on
SumStep_NoAbort ==
    /\ pc = "summing"
    /\ taken < Len(items)
    /\ res' = add_wrap(kind, res.val, items[taken + 1])
    /\ pc' = "summing"
    /\ taken' = taken + 1
    /\ UNCHANGED <<kind, rty, a, b, op, sel, self, target, items>>

\* the iterator yields its next item, which is added to the running total;
\* a panic of the add ends the call
SumStep ==
    /\ pc = "summing"
    /\ taken < Len(items)
    /\ LET r == AddOf(op, kind, res.val, items[taken + 1])
       IN  /\ res' = r
           /\ pc' = IF r.ok THEN "summing" ELSE "done"
    /\ taken' = taken + 1
    /\ UNCHANGED <<kind, rty, a, b, op, sel, self, target, items>>

\* the iterator is exhausted and the running total is returned
SumFinish ==
    /\ pc = "summing"
    /\ taken = Len(items)
    /\ pc' = "done"
    /\ UNCHANGED <<kind, rty, a, b, op, res, sel, self, target, items, taken>>

SumNext == SumWrap \/ SumPanic \/ SumSaturate \/ SumStep \/ SumFinish

SumSpec == SumInit /\ [][SumNext]_vars

\* the left fold of the policy's add over s, starting from 0
RECURSIVE FoldAdd(_, _, _)
FoldAdd(name, k, s) ==
    IF s = <<>> THEN Return(0)
    ELSE LET p == FoldAdd(name, k, SubSeq(s, 1, Len(s) - 1))
         IN  IF p.ok THEN AddOf(name, k, p.val, s[Len(s)]) ELSE Panicked

\* C21: the sum under policy P takes the items once, in order, and returns
\* the left fold of P's add from 0: sum_P(<<>>) = 0 and
\* sum_P(s \o <<x>>) = add_P(sum_P(s), x).  While the call runs the total is
\* the fold of the items taken so far; a call that returns has taken all.
C21_SumIsLeftFold ==
    (pc \in {"summing", "done"} /\ op \in SumMethods) =>
        /\ res = FoldAdd(op, kind, SubSeq(items, 1, taken))
        /\ (pc = "done" /\ res.ok) =>
              /\ taken = Len(items)
              /\ res = FoldAdd(op, kind, items)

C21_Witness ==
    /\ pc = "done" /\ op = "sum_wrap" /\ kind = "u8"
    /\ items = <<255, 1, 100>> /\ taken = 3 /\ res = Return(100)

\* the true sum of the first n items of s
RECURSIVE MathSum(_, _)
MathSum(s, n) == IF n = 0 THEN 0 ELSE MathSum(s, n - 1) + s[n]

\* the positions at which the running total leaves the range of kind k
Overflowing(k, s) == {j \in 1..Len(s) : ~InRange(k, MathSum(s, j))}

FirstOverflow(k, s) ==
    CHOOSE j \in Overflowing(k, s) : \A i \in Overflowing(k, s) : j <= i

\* C22: sum_panic fails at the first item at which the running total would
\* overflow: no item past it is ever taken, the call ends in a panic with
\* exactly the items up to it taken, and no total is returned; without such
\* an item it returns the true sum.
C22_SumPanicStopsAtFirstOverflow ==
    (op = "sum_panic") =>
        IF Overflowing(kind, items) # {}
        THEN /\ taken <= FirstOverflow(kind, items)
             /\ pc = "done" =>
                   (~res.ok /\ taken = FirstOverflow(kind, items))
        ELSE pc = "done" =>
                   (res = Return(MathSum(items, Len(items)))
                    /\ taken = Len(items))

C22_Witness ==
    /\ pc = "done" /\ op = "sum_panic" /\ kind = "u8"
    /\ items = <<255, 1, 100>> /\ taken = 2 /\ res = Panicked

====
